---- MODULE Spec2Model ----
(* Worked-area computation of app.py: the per-farm loop, the segmentation  *)
(* of GPS fixes into lines, the boolean resolution against the farm        *)
(* boundary and the area statistics.                                       *)
(*                                                                         *)
(* Geometry is modelled on a strip of square cells of one hectare each:    *)
(* a geometry is the set of cells it covers, a fix sits in one cell and a  *)
(* line covers the cells between its first and last position.              *)
EXTENDS Integers, Sequences, FiniteSets, TLC

\* ---------------------------------------------------------------- bounds
MaxFixes == 3
MaxTick == 3
MaxCell == 2
MaxParts == 2
NumFarms == 2
NumEquip == 2

\* ------------------------------------------------------ program constants
TEMPO_MAX_SEG == 60
LARGURA_IMPLEMENTO == 6
HA == 10000

\* pandas' NaT (a timestamp that errors="coerce" could not parse) and
\* Python's None, as values outside the timestamps
NaT == -1
None == -2

VARIABLES
    df,                  \* the filtered fix rows [faz, eq, t, pos]
    base,                \* the boundary rows [faz, cells]
    pc,                  \* position of the script
    fi,                  \* index of FAZENDA_ID in the farm loop
    gi,                  \* index of the equipment group in the groupby loop
    ri,                  \* index of the row in grupo.iterrows()
    grupo,               \* the sorted group: a sequence of row indices of df
    linha_atual,         \* the current run: a sequence of row indices
    ultimo_tempo,        \* timestamp of the previous row, None at group start
    linhas,              \* the emitted lines of the current farm
    geom_fazenda,        \* unary_union of the farm's boundary parts
    area_trabalhada,
    area_nao_trabalhada,
    area_total_ha,
    area_trab_ha,
    area_nao_ha,
    pct_trab,
    pct_nao,
    out                  \* what the page shows, one entry per farm handled

vars == <<df, base, pc, fi, gi, ri, grupo, linha_atual, ultimo_tempo, linhas,
          geom_fazenda, area_trabalhada, area_nao_trabalhada,
          area_total_ha, area_trab_ha, area_nao_ha, pct_trab, pct_nao, out>>

segVars == <<gi, ri, grupo, linha_atual, ultimo_tempo, linhas>>
geoVars == <<geom_fazenda, area_trabalhada, area_nao_trabalhada>>
statVars == <<area_total_ha, area_trab_ha, area_nao_ha, pct_trab, pct_nao>>

\* ----------------------------------------------------------------- helpers
Cells == 0 .. MaxCell

Range(s) == {s[i] : i \in DOMAIN s}

SeqsUpTo(S, n) == UNION {[1 .. k -> S] : k \in 0 .. n}

Min(S) == CHOOSE x \in S : \A y \in S : x <= y
Max(S) == CHOOSE x \in S : \A y \in S : y <= x

RECURSIVE Ascending(_)
Ascending(S) == IF S = {} THEN <<>> ELSE <<Min(S)>> \o Ascending(S \ {Min(S)})

RECURSIVE SumSeq(_)
SumSeq(s) == IF s = <<>> THEN 0 ELSE Head(s) + SumSeq(Tail(s))

\* df["cd_fazenda"].dropna().unique(): the farm ids in order of first appearance
FazendaIds ==
    LET first == {i \in DOMAIN df : \A j \in 1 .. (i - 1) : df[j].faz # df[i].faz}
        idx == Ascending(first)
    IN  [k \in DOMAIN idx |-> df[idx[k]].faz]

\* df[df["cd_fazenda"] == FAZENDA_ID]: the row indices of the farm's fixes
DfFaz(f) == {i \in DOMAIN df : df[i].faz = f}

\* base[base["FAZENDA"] == FAZENDA_ID]: the farm's boundary parts, in file order
BaseFazenda(f) ==
    LET idx == Ascending({i \in DOMAIN base : base[i].faz = f})
    IN  [k \in DOMAIN idx |-> base[idx[k]].cells]

\* gdf_pts.groupby("cd_equipamento"): the group keys, ascending
GroupKeys(f) == Ascending({df[i].eq : i \in DfFaz(f)})

\* grupo.sort_values("dt_hr_local_inicial"): ascending timestamps, NaT rows last
\* in their original order; the default sort is not stable, so rows of equal
\* timestamp come out in any order
\* (SortValuesUnsorted: the group left in file order)
SortValuesUnsorted(rows) == {Ascending(rows)}

SortValues(rows) ==
    LET n == Cardinality(rows)
        Before(x, y) ==
            IF df[x].t = NaT THEN df[y].t = NaT /\ x < y
            ELSE df[y].t = NaT \/ df[x].t <= df[y].t
    IN  {s \in [1 .. n -> rows] :
            /\ \A a, b \in 1 .. n : a < b => s[a] # s[b]
            /\ \A a, b \in 1 .. n : a < b => Before(s[a], s[b])}

\* delta = (row.t - ultimo_tempo).total_seconds(); delta <= TEMPO_MAX_SEG.
\* With a NaT on either side delta is NaN and the comparison is False.
\* (DeltaStrict: the comparison written with <)
DeltaStrict(t, ultimo) ==
    /\ t # NaT
    /\ ultimo # NaT
    /\ t - ultimo < TEMPO_MAX_SEG

DeltaOk(t, ultimo) ==
    /\ t # NaT
    /\ ultimo # NaT
    /\ t - ultimo <= TEMPO_MAX_SEG

\* if len(linha_atual) >= 2: linhas.append(LineString(linha_atual))
\* (EmitAny: the length test written with 1)
EmitAny(ls, l) == IF Len(l) >= 1 THEN Append(ls, l) ELSE ls

Emit(ls, l) == IF Len(l) >= 2 THEN Append(ls, l) ELSE ls

\* the cells a LineString passes through
LineCells(l) ==
    LET ps == {df[l[k]].pos : k \in DOMAIN l}
    IN  {c \in Cells : Min(ps) <= c /\ c <= Max(ps)}

\* gdf_linhas.buffer(LARGURA_IMPLEMENTO / 2): the cells within half the
\* implement width of the line; a cell is sqrt(HA) metres wide
Buffer(l) ==
    {c \in Cells : \E h \in LineCells(l) :
        4 * (c - h) * (c - h) * HA <= LARGURA_IMPLEMENTO * LARGURA_IMPLEMENTO}

\* unary_union of a collection of geometries
UnaryUnion(gs) == UNION gs

\* geometry.area, in square metres
Area(g) == Cardinality(g) * HA

\* unary_union(buffer_linhas).intersection(geom_fazenda)
\* (AreaTrabalhadaUnclipped: the intersection left out)
AreaTrabalhadaUnclipped(ls, geom) == UnaryUnion({Buffer(ls[k]) : k \in DOMAIN ls})

AreaTrabalhada(ls, geom) == UnaryUnion({Buffer(ls[k]) : k \in DOMAIN ls}) \cap geom

\* a / total * 100 in numpy floats: 0/0 is nan and x/0 is inf, with a warning
\* and no exception; a finite value is kept as the exact fraction num/den
Pct(a, total) ==
    IF total = 0
    THEN [kind |-> IF a = 0 THEN "nan" ELSE "inf", num |-> 0, den |-> 0]
    ELSE [kind |-> "num", num |-> a * 100, den |-> total]

NoPct == [kind |-> "unset", num |-> 0, den |-> 0]

\* df_faz["dt_hr_local_inicial"].min(): NaT rows are skipped, NaT if none is left
DtMin(f) ==
    LET ts == {df[i].t : i \in DfFaz(f)} \ {NaT}
    IN  IF ts = {} THEN NaT ELSE Min(ts)

\* ------------------------------------------------------------------ inputs
Stamps == {(k * TEMPO_MAX_SEG) \div 2 : k \in 0 .. MaxTick} \cup {NaT}

Equipamentos == 1 .. NumEquip

Intervals == {{c \in Cells : a <= c /\ c <= b} : a, b \in Cells} \cup {{}}

InitWith(fixes, parts) ==
    /\ df \in fixes
    /\ base \in parts
    /\ pc = "farm"
    /\ fi = 1
    /\ gi = 1
    /\ ri = 1
    /\ grupo = <<>>
    /\ linha_atual = <<>>
    /\ ultimo_tempo = None
    /\ linhas = <<>>
    /\ geom_fazenda = {}
    /\ area_trabalhada = {}
    /\ area_nao_trabalhada = {}
    /\ area_total_ha = 0
    /\ area_trab_ha = 0
    /\ area_nao_ha = 0
    /\ pct_trab = NoPct
    /\ pct_nao = NoPct
    /\ out = <<>>

\* one farm, several equipment units and timestamps
SegFixes == SeqsUpTo([faz : {1}, eq : Equipamentos, t : Stamps, pos : {0}], MaxFixes)
SegBase == {<<>>, <<[faz |-> 1, cells |-> {0}]>>}
InitSeg == InitWith(SegFixes, SegBase)

\* one farm and one equipment unit; positions and boundary parts vary. A line
\* covers the cells between its extreme positions, so two fixes give every
\* corridor; one fix with a NaT timestamp gives the farm without a period
GeoFixes ==
    SeqsUpTo([faz : {1}, eq : {1}, t : {0}, pos : Cells], 2)
        \cup {<<[faz |-> 1, eq |-> 1, t |-> NaT, pos |-> 0]>>}
GeoBase == SeqsUpTo([faz : {1}, cells : Intervals], MaxParts)
InitGeo == InitWith(GeoFixes, GeoBase)

\* several farms, each with or without a boundary
FarmFixes ==
    SeqsUpTo([faz : 1 .. NumFarms, eq : {1}, t : {0, NaT}, pos : {0}], MaxFixes)
FarmBase == SeqsUpTo([faz : 1 .. NumFarms, cells : {{}, {0}}], NumFarms)
InitFarms == InitWith(FarmFixes, FarmBase)

\* ----------------------------------------------------------------- actions
FAZENDA_ID == FazendaIds[fi]

\* lines 150-159: the farm has no boundary row: warning and continue
FarmInsufficient ==
    /\ pc = "farm"
    /\ fi <= Len(FazendaIds)
    /\ (DfFaz(FAZENDA_ID) = {} \/ BaseFazenda(FAZENDA_ID) = <<>>)
    /\ out' = Append(out, [faz |-> FAZENDA_ID, kind |-> "warning"])
    /\ fi' = fi + 1
    /\ UNCHANGED <<df, base, pc, segVars, geoVars, statVars>>

\* lines 150-184: projection, union of the boundary parts, linhas = []
FarmStart ==
    /\ pc = "farm"
    /\ fi <= Len(FazendaIds)
    /\ ~(DfFaz(FAZENDA_ID) = {} \/ BaseFazenda(FAZENDA_ID) = <<>>)
    /\ geom_fazenda' = UnaryUnion(Range(BaseFazenda(FAZENDA_ID)))
    /\ linhas' = <<>>
    /\ gi' = 1
    /\ pc' = "group"
    /\ UNCHANGED <<df, base, fi, ri, grupo, linha_atual, ultimo_tempo,
                   area_trabalhada, area_nao_trabalhada, statVars, out>>

\* lines 185-188: next equipment group, sorted; the run and the last
\* timestamp are reset
\* (GroupStartNoReset: lines 187-188 left out)
GroupStartNoReset ==
    /\ pc = "group"
    /\ gi <= Len(GroupKeys(FAZENDA_ID))
    /\ \E s \in SortValues({i \in DfFaz(FAZENDA_ID) :
                               df[i].eq = GroupKeys(FAZENDA_ID)[gi]}) :
           grupo' = s
    /\ ri' = 1
    /\ pc' = "row"
    /\ UNCHANGED <<df, base, fi, gi, linha_atual, ultimo_tempo, linhas,
                   geoVars, statVars, out>>

GroupStart ==
    /\ pc = "group"
    /\ gi <= Len(GroupKeys(FAZENDA_ID))
    /\ \E s \in SortValues({i \in DfFaz(FAZENDA_ID) :
                               df[i].eq = GroupKeys(FAZENDA_ID)[gi]}) :
           grupo' = s
    /\ linha_atual' = <<>>
    /\ ultimo_tempo' = None
    /\ ri' = 1
    /\ pc' = "row"
    /\ UNCHANGED <<df, base, fi, gi, linhas, geoVars, statVars, out>>

\* lines 190-201: one row of the group
RowStep ==
    /\ pc = "row"
    /\ ri <= Len(grupo)
    /\ LET row == grupo[ri]
       IN  /\ IF ultimo_tempo = None
              THEN /\ linha_atual' = <<row>>
                   /\ linhas' = linhas
              ELSE IF DeltaOk(df[row].t, ultimo_tempo)
                   THEN /\ linha_atual' = Append(linha_atual, row)
                        /\ linhas' = linhas
                   ELSE /\ linhas' = Emit(linhas, linha_atual)
                        /\ linha_atual' = <<row>>
           /\ ultimo_tempo' = df[row].t
    /\ ri' = ri + 1
    /\ UNCHANGED <<df, base, pc, fi, gi, grupo, geoVars, statVars, out>>

\* lines 203-204: the group is exhausted, the open run is closed
GroupEnd ==
    /\ pc = "row"
    /\ ri > Len(grupo)
    /\ linhas' = Emit(linhas, linha_atual)
    /\ gi' = gi + 1
    /\ pc' = "group"
    /\ UNCHANGED <<df, base, fi, ri, grupo, linha_atual, ultimo_tempo,
                   geoVars, statVars, out>>

\* lines 206-210: buffer, union, intersection with the farm, difference
Resolve ==
    /\ pc = "group"
    /\ gi > Len(GroupKeys(FAZENDA_ID))
    /\ area_trabalhada' = AreaTrabalhada(linhas, geom_fazenda)
    /\ area_nao_trabalhada' = geom_fazenda \ area_trabalhada'
    /\ pc' = "stats"
    /\ UNCHANGED <<df, base, fi, segVars, geom_fazenda, statVars, out>>

\* lines 215-220: areas in hectares and percentages
Statistics ==
    /\ pc = "stats"
    /\ area_total_ha' =
           SumSeq([k \in DOMAIN BaseFazenda(FAZENDA_ID) |->
                      Area(BaseFazenda(FAZENDA_ID)[k])]) \div HA
    /\ area_trab_ha' = Area(area_trabalhada) \div HA
    /\ area_nao_ha' = Area(area_nao_trabalhada) \div HA
    /\ pct_trab' = Pct(area_trab_ha', area_total_ha')
    /\ pct_nao' = Pct(area_nao_ha', area_total_ha')
    /\ pc' = "period"
    /\ UNCHANGED <<df, base, fi, segVars, geoVars, out>>

\* lines 222-226: the period is formatted
Period ==
    /\ pc = "period"
    /\ DtMin(FAZENDA_ID) # NaT
    /\ pc' = "plot"
    /\ UNCHANGED <<df, base, fi, segVars, geoVars, statVars, out>>

\* lines 222-225: every timestamp of the farm is NaT, NaT.strftime raises
\* ValueError and the script ends
PeriodRaise ==
    /\ pc = "period"
    /\ DtMin(FAZENDA_ID) = NaT
    /\ pc' = "aborted"
    /\ UNCHANGED <<df, base, fi, segVars, geoVars, statVars, out>>

\* lines 231-308: the map and the summary box are drawn, next farm
Plot ==
    /\ pc = "plot"
    /\ out' = Append(out, [faz |-> FAZENDA_ID, kind |-> "map"])
    /\ fi' = fi + 1
    /\ pc' = "farm"
    /\ UNCHANGED <<df, base, segVars, geoVars, statVars>>

\* line 150: the farm loop is exhausted
Finish ==
    /\ pc = "farm"
    /\ fi > Len(FazendaIds)
    /\ pc' = "done"
    /\ UNCHANGED <<df, base, fi, segVars, geoVars, statVars, out>>

Next ==
    \/ FarmInsufficient
    \/ FarmStart
    \/ GroupStart
    \/ RowStep
    \/ GroupEnd
    \/ Resolve
    \/ Statistics
    \/ Period
    \/ PeriodRaise
    \/ Plot
    \/ Finish

SpecSeg == InitSeg /\ [][Next]_vars
SpecGeo == InitGeo /\ [][Next]_vars
SpecFarms == InitFarms /\ [][Next]_vars

\* ------------------------------------------------------------- properties
Stamp(row) == df[row].t

\* two rows whose timestamps are both valid and at most TEMPO_MAX_SEG apart
Near(a, b) ==
    /\ Stamp(a) # NaT
    /\ Stamp(b) # NaT
    /\ Stamp(b) - Stamp(a) <= TEMPO_MAX_SEG

Adjacent(a, b) ==
    \E i \in DOMAIN linhas : \E j \in 1 .. (Len(linhas[i]) - 1) :
        linhas[i][j] = a /\ linhas[i][j + 1] = b

SameLine(a, b) ==
    \E i \in DOMAIN linhas : a \in Range(linhas[i]) /\ b \in Range(linhas[i])

Resolved == pc \in {"stats", "period", "plot"}
Computed == pc \in {"period", "plot"}

\* C1: in every emitted line the timestamps of consecutive positions are
\* valid and non-decreasing, and every gap between consecutive positions is
\* at most TEMPO_MAX_SEG.
C1_Monotonic ==
    \A i \in DOMAIN linhas : \A j \in 1 .. (Len(linhas[i]) - 1) :
        /\ Stamp(linhas[i][j]) # NaT
        /\ Stamp(linhas[i][j + 1]) # NaT
        /\ Stamp(linhas[i][j]) <= Stamp(linhas[i][j + 1])
        /\ Stamp(linhas[i][j + 1]) - Stamp(linhas[i][j]) <= TEMPO_MAX_SEG

\* a line of three fixes was emitted from rows that were not in timestamp
\* order in the input, with a gap equal to the threshold
C1_Witness ==
    \E i \in DOMAIN linhas :
        /\ Len(linhas[i]) = 3
        /\ \E j \in 1 .. 2 : linhas[i][j] > linhas[i][j + 1]
        /\ \E j \in 1 .. 2 :
              Stamp(linhas[i][j + 1]) - Stamp(linhas[i][j]) = TEMPO_MAX_SEG

\* C2: no emitted line has fewer than 2 positions; a run of one fix is
\* dropped when it is closed.
C2_NoSingleton ==
    \A i \in DOMAIN linhas : Len(linhas[i]) >= 2

\* a group ended on a run of one fix, after a line had been emitted
C2_Witness ==
    /\ pc = "group"
    /\ gi > 1
    /\ Len(linha_atual) = 1
    /\ Len(grupo) = 3
    /\ Len(linhas) = 1

\* C9: once a group is exhausted, two rows adjacent in its sorted order are
\* consecutive in one emitted line exactly when their gap is at most
\* TEMPO_MAX_SEG (a gap equal to the threshold extends the run), and rows
\* further apart than that never share a line.
C9_MaximalRuns ==
    (pc = "group" /\ gi > 1) =>
        \A k \in 1 .. (Len(grupo) - 1) :
            /\ Near(grupo[k], grupo[k + 1]) <=> Adjacent(grupo[k], grupo[k + 1])
            /\ ~Near(grupo[k], grupo[k + 1]) => ~SameLine(grupo[k], grupo[k + 1])

\* one line holds three fixes whose gaps both equal the threshold, so that
\* the last fix is further than the threshold from the first
C9_Witness ==
    /\ pc = "group"
    /\ gi > 1
    /\ \E i \in DOMAIN linhas :
          /\ Len(linhas[i]) = 3
          /\ Stamp(linhas[i][2]) - Stamp(linhas[i][1]) = TEMPO_MAX_SEG
          /\ Stamp(linhas[i][3]) - Stamp(linhas[i][1]) > TEMPO_MAX_SEG

\* C10: every emitted line holds fixes of one equipment unit and every fix
\* is in at most one line, at most once.
C10_OneEquipment ==
    /\ \A i \in DOMAIN linhas : \A a, b \in Range(linhas[i]) : df[a].eq = df[b].eq
    /\ \A row \in DOMAIN df :
          Cardinality({p \in UNION {{<<i, j>> : j \in DOMAIN linhas[i]} :
                                        i \in DOMAIN linhas} :
                          linhas[p[1]][p[2]] = row}) <= 1

\* a line of one unit ends within the threshold of the first fix of the next
\* unit, and the segmentation of the farm is over
C10_Witness ==
    /\ pc = "stats"
    /\ \E i \in DOMAIN linhas : \E b \in DOMAIN df :
          LET a == linhas[i][Len(linhas[i])]
          IN  /\ df[b].eq > df[a].eq
              /\ Stamp(b) # NaT
              /\ Stamp(b) >= Stamp(a)
              /\ Stamp(b) - Stamp(a) <= TEMPO_MAX_SEG

\* C8: the worked area is the part of the farm covered by some corridor, the
\* unworked area is the rest of the farm: the two are disjoint and together
\* make the farm; with no corridor the worked area is empty and the unworked
\* area is the farm.
C8_Partition ==
    Resolved =>
        /\ area_trabalhada =
              {c \in geom_fazenda : \E k \in DOMAIN linhas : c \in Buffer(linhas[k])}
        /\ area_trabalhada \cap area_nao_trabalhada = {}
        /\ area_trabalhada \cup area_nao_trabalhada = geom_fazenda
        /\ linhas = <<>> =>
              (area_trabalhada = {} /\ area_nao_trabalhada = geom_fazenda)

\* a corridor lies partly inside and partly outside a farm that it does not
\* cover
C8_Witness ==
    /\ Resolved
    /\ area_trabalhada # {}
    /\ area_nao_trabalhada # {}
    /\ \E k \in DOMAIN linhas : Buffer(linhas[k]) \ geom_fazenda # {}

\* C3: for every farm whose statistics are computed, worked plus unworked
\* hectares equal the total hectares.
C3_AreaIdentity ==
    Computed => area_trab_ha + area_nao_ha = area_total_ha

\* C4: the total area is the area of the union of the boundary parts.
C4_TotalIsUnion ==
    Computed => area_total_ha * HA = Area(geom_fazenda)

\* C5: with a total area of 0 the worked percentage is never NaN or infinite.
C5_NoNaN ==
    (Computed /\ area_total_ha = 0) => pct_trab.kind \notin {"nan", "inf"}

\* C6: a farm for which no line survives the segmentation gets no polygons
\* and no statistics.
C6_InsufficientFixes ==
    Resolved => linhas # <<>>

\* C7: no farm ends the run, and a farm gets a map only if it has a
\* boundary, at least one line and a boundary of positive area.
C7_FarmScoped ==
    /\ pc # "aborted"
    /\ \A k \in DOMAIN out : out[k].kind = "map" => BaseFazenda(out[k].faz) # <<>>
    /\ (pc = "farm" /\ out # <<>> /\ out[Len(out)].kind = "map") =>
          (linhas # <<>> /\ area_total_ha > 0)

====
